---- MODULE Spec2Model ----
(***************************************************************************)
(* Feedback analyzer Worker: the feedback table (D1), the KV cache with    *)
(* its two keys 'stats' and 'insights', the classifier (Workers AI) and    *)
(* the request handlers submitFeedback, getStats, analyzeFeedback,         *)
(* analyzeAllFeedback and getInsights.                                     *)
(*                                                                         *)
(* The repository holds two versions of the Worker, and both are modelled: *)
(*   impl = "root"    src/index.ts      (urgency low/medium/high)          *)
(*   impl = "worker"  src/src/index.ts  (urgency urgent/normal/low)        *)
(* A handler is a sequence of steps, one per awaited operation on the      *)
(* store, the cache or the classifier; req[p] holds the position and the   *)
(* locals of the request that process p is serving.                        *)
(***************************************************************************)
EXTENDS Integers, Sequences, FiniteSets, TLC

VARIABLES impl, rows, cache, req, bg, nreq

vars == <<impl, rows, cache, req, bg, nreq>>

----------------------------------------------------------------------------
(* Bounds of the model *)

\* rows the table may hold under Spec and SpecRace
MaxRows == 2
\* requests started in one behaviour of Spec
MaxReqs == 3
\* requests started in one behaviour of SpecRace
MaxRaceReqs == 3
\* rows the table holds when the one analyzeAll call of SpecBatch starts
MaxBatchRows == 7

\* rows of each kind in the tables of analyzed rows of SpecInsights
MaxBugRows == 6
MaxFeatureRows == 4
MaxPerformanceRows == 3
MaxDocumentationRows == 3
MaxDebugRows == 1
MaxManyRows == 1
\* the length of the text 'long' of the tables of SpecInsights
MaxTextLength == 101
\* SpecSelect: the rows already analyzed, the unanalyzed rows beyond the
\* limit of the selection, and the tasks whose calls may end in any order and
\* fail
\* SpecUrgent: the rows of the highest urgency and negative sentiment
MaxUrgentRows == 6
MaxAnalyzedRows == 1
\* SpecAgain: the rows of the table
MaxAgainRows == 3
MaxExtraRows == 1
MaxFreeTasks == 2

(* Program constants *)

\* LIMIT 50 of the selection of analyzeAllFeedback
SelectLimit == 50
\* batchSize of analyzeAllFeedback
batchSize == 5

----------------------------------------------------------------------------
(* Values *)

\* SQL NULL, a missing JSON field, JavaScript null and undefined
NULL == "<null>"

Impls == {"root", "worker"}
Procs == {1, 2}
Keys == {"stats", "insights"}

Sources == {"GitHub", "Email"}
Texts == {"crash", "love"}
Sentiments == {"positive", "negative", "neutral"}

\* !v of a string-or-missing JSON value
Falsy(v) == v = NULL \/ v = ""

\* v || null
OrNull(v) == IF Falsy(v) THEN NULL ELSE v

RECURSIVE SeqSum(_)
SeqSum(s) == IF s = <<>> THEN 0 ELSE Head(s) + SeqSum(Tail(s))

\* s.slice(0, n)
Take(s, n) == SubSeq(s, 1, IF Len(s) < n THEN Len(s) ELSE n)

Range(s) == {s[i] : i \in DOMAIN s}

\* Math.floor(a / b) for b > 0
RoundDown(a, b) == a \div b

\* Math.round(a / b) for b > 0: the nearest integer, a half rounded up
RoundDiv(a, b) == (2 * a + b) \div (2 * b)

(* Strings whose characters matter are read as sequences of characters *)

\* a classifier answer that lists eight themes
ManyThemes == "ux,pricing, security ,integration,mobile,  accessibility,api, support"

\* the characters of the texts and theme lists the model uses
\* the length of the previews of getInsights
PreviewLength == 100

\* a text of n characters
Filler(n) == [i \in 1..n |-> <<"0", "1", "2", "3", "4", "5", "6", "7", "8", "9">>[(i % 10) + 1]]

RECURSIVE Chars(_)
Chars(s) ==
    CASE s = "crash" -> <<"c", "r", "a", "s", "h">>
      [] s = "love" -> <<"l", "o", "v", "e">>
      [] s = "long" -> Filler(MaxTextLength)
      [] s = "exact" -> Filler(PreviewLength)
      [] s = "bug" -> <<"b", "u", "g">>
      [] s = "ux" -> <<"u", "x">>
      [] s = "general" -> <<"g", "e", "n", "e", "r", "a", "l">>
      [] s = "..." -> <<".", ".", ".">>
      [] s = "feature-request" -> <<"f", "e", "a", "t", "u", "r", "e", "-", "r", "e", "q", "u", "e", "s", "t">>
      [] s = "performance" -> <<"p", "e", "r", "f", "o", "r", "m", "a", "n", "c", "e">>
      [] s = "documentation" -> <<"d", "o", "c", "u", "m", "e", "n", "t", "a", "t", "i", "o", "n">>
      [] s = "debug" -> <<"d", "e", "b", "u", "g">>
      [] s = "pricing" -> <<"p", "r", "i", "c", "i", "n", "g">>
      [] s = "security" -> <<"s", "e", "c", "u", "r", "i", "t", "y">>
      [] s = "integration" -> <<"i", "n", "t", "e", "g", "r", "a", "t", "i", "o", "n">>
      [] s = "mobile" -> <<"m", "o", "b", "i", "l", "e">>
      [] s = "accessibility" -> <<"a", "c", "c", "e", "s", "s", "i", "b", "i", "l", "i", "t", "y">>
      [] s = "api" -> <<"a", "p", "i">>
      [] s = "support" -> <<"s", "u", "p", "p", "o", "r", "t">>
      [] s = "feature" -> <<"f", "e", "a", "t", "u", "r", "e">>
      [] s = "request" -> <<"r", "e", "q", "u", "e", "s", "t">>
      [] s = "add" -> <<"a", "d", "d">>
      [] s = "bug, performance" -> Chars("bug") \o <<",", " ">> \o Chars("performance")
      [] s = ManyThemes ->
            Chars("ux") \o <<",">> \o Chars("pricing") \o <<",", " ">> \o Chars("security")
            \o <<" ", ",">> \o Chars("integration") \o <<",">> \o Chars("mobile")
            \o <<",", " ", " ">> \o Chars("accessibility") \o <<",">> \o Chars("api")
            \o <<",", " ">> \o Chars("support")
      [] OTHER -> <<>>

\* a slip: the text is not cut
SubstringWhole(cs, n) == cs

\* text.substring(0, n)
Substring(cs, n) == Take(cs, n)

\* cs.includes(sub)
Includes(cs, sub) ==
    \E i \in 0..(Len(cs) - Len(sub)) : SubSeq(cs, i + 1, i + Len(sub)) = sub

\* cs.split(','): the pieces between the commas
RECURSIVE SplitComma(_)
SplitComma(cs) ==
    IF \A i \in DOMAIN cs : cs[i] # "," THEN <<cs>>
    ELSE LET k == CHOOSE i \in DOMAIN cs : cs[i] = "," /\ \A j \in 1..(i - 1) : cs[j] # ","
         IN <<SubSeq(cs, 1, k - 1)>> \o SplitComma(SubSeq(cs, k + 1, Len(cs)))

\* c.toLowerCase() of one character
UpperCase == <<"A", "B", "C", "D", "E", "F", "G", "H", "I", "J", "K", "L", "M", "N", "O", "P", "Q", "R", "S", "T", "U", "V", "W", "X", "Y", "Z">>
LowerCase == <<"a", "b", "c", "d", "e", "f", "g", "h", "i", "j", "k", "l", "m", "n", "o", "p", "q", "r", "s", "t", "u", "v", "w", "x", "y", "z">>
LowerChar(c) ==
    IF \E i \in DOMAIN UpperCase : UpperCase[i] = c
    THEN LowerCase[CHOOSE i \in DOMAIN UpperCase : UpperCase[i] = c]
    ELSE c

\* t.trim() on a sequence of characters
RECURSIVE TrimChars(_)
TrimChars(cs) ==
    IF cs # <<>> /\ Head(cs) = " " THEN TrimChars(Tail(cs))
    ELSE IF cs # <<>> /\ cs[Len(cs)] = " " THEN TrimChars(SubSeq(cs, 1, Len(cs) - 1))
    ELSE cs

----------------------------------------------------------------------------
(* The classifier (env.AI.run) and the label extractor (analyzeWithAI) *)

\* What one call of env.AI.run ends with: it throws, it resolves to an object
\* without a response string, or it resolves to a text whose Sentiment, Themes
\* and Urgency lines carry these values (NULL: the line is not there).
AIThrow == [kind |-> "throw", sentiment |-> NULL, themes |-> NULL, urgency |-> NULL]
AIMalformed == [kind |-> "malformed", sentiment |-> NULL, themes |-> NULL, urgency |-> NULL]
AIText(s, t, u) == [kind |-> "text", sentiment |-> s, themes |-> t, urgency |-> u]

\* String.prototype.toLowerCase on the values the classifier is given here
LowerOf(v) ==
    CASE v = "Positive" -> "positive"
      [] v = "NEGATIVE" -> "negative"
      [] v = "High" -> "high"
      [] v = "Urgent" -> "urgent"
      [] OTHER -> v

\* String.prototype.trim on the values the classifier is given here
TrimOf(v) ==
    CASE v = "bug " -> "bug"
      [] v = " ux" -> "ux"
      [] OTHER -> v

\* v starts with w (both lower case)
StartsWith(v, w) ==
    \/ v = w
    \/ <<v, w>> \in {<<"positively", "positive">>, <<"highest", "high">>,
                     <<"lowest", "low">>, <<"neutral-ish", "neutral">>}

\* the capture of /LABEL:\s*(w1|w2|w3)/i on a line with value v: the first
\* alternative the value starts with, NULL when the expression does not match
RegexWord(v, alternatives) ==
    LET hits == SelectSeq(alternatives, LAMBDA w : StartsWith(LowerOf(v), w))
    IN IF v = NULL \/ hits = <<>> THEN NULL ELSE Head(hits)

RootSentiments == <<"positive", "negative", "neutral">>
RootUrgencies == <<"low", "medium", "high">>
WorkerUrgencies == {"urgent", "normal", "low"}

RootDefaults == [threw |-> FALSE, sentiment |-> "neutral", themes |-> "general", urgency |-> "medium"]
Threw == [threw |-> TRUE, sentiment |-> NULL, themes |-> NULL, urgency |-> NULL]

\* src/index.ts analyzeWithAI: the whole body is inside try/catch
AnalyzeWithAIRoot(out) ==
    IF out.kind # "text" THEN RootDefaults
    ELSE LET sentimentMatch == RegexWord(out.sentiment, RootSentiments)
             urgencyMatch == RegexWord(out.urgency, RootUrgencies)
             sentiment == IF sentimentMatch # NULL THEN sentimentMatch ELSE "neutral"
             themes == IF out.themes # NULL THEN TrimOf(out.themes) ELSE "general"
             urgency == IF urgencyMatch # NULL THEN urgencyMatch ELSE "medium"
         IN [threw |-> FALSE,
             sentiment |-> IF sentiment \in Range(RootSentiments) THEN sentiment ELSE "neutral",
             themes |-> themes,
             urgency |-> IF urgency \in Range(RootUrgencies) THEN urgency ELSE "medium"]

\* src/src/index.ts analyzeWithAI: no try/catch around env.AI.run or the parse
AnalyzeWithAIWorker(out) ==
    IF out.kind # "text" THEN Threw
    ELSE LET sentiment == IF out.sentiment # NULL THEN LowerOf(TrimOf(out.sentiment)) ELSE "neutral"
             themes == IF out.themes # NULL THEN TrimOf(out.themes) ELSE ""
             urgency == IF out.urgency # NULL THEN LowerOf(TrimOf(out.urgency)) ELSE "normal"
         IN [threw |-> FALSE,
             sentiment |-> IF sentiment \in Sentiments THEN sentiment ELSE "neutral",
             themes |-> themes,
             urgency |-> IF urgency \in WorkerUrgencies THEN urgency ELSE "normal"]

\* the { sentiment, themes, urgency } a call of analyzeWithAI resolves to
Labels(a) == [sentiment |-> a.sentiment, themes |-> a.themes, urgency |-> a.urgency]

analyzeWithAI(im, out) == IF im = "root" THEN AnalyzeWithAIRoot(out) ELSE AnalyzeWithAIWorker(out)

\* The answers the classifier may give for a text: the labels the text calls
\* for in the vocabulary of the prompt, an answer with none of the three
\* lines, an object without a response, or a failure of the call.
GoodAnswer(im, text) ==
    IF text = "crash"
    THEN AIText("NEGATIVE", "bug ", IF im = "root" THEN "High" ELSE "Urgent")
    ELSE AIText("Positive", " ux", "low")

NoLines == AIText(NULL, NULL, NULL)

\* what the classifier may write on the three lines when it does not keep to
\* the prompt: other words, other case, a word of the other scale, no line
LooseSentiments == {"Positive", "NEGATIVE", "mixed", "positively", NULL}
LooseThemes == {"bug ", " ux", "debug", NULL}
LooseUrgencies == {"High", "Urgent", "low", "highest", NULL}
LooseAnswers == {AIText(s, t, u) : s \in LooseSentiments, t \in LooseThemes, u \in LooseUrgencies}

AIOutcomes(im, text) == {GoodAnswer(im, text), NoLines, AIMalformed, AIThrow}

----------------------------------------------------------------------------
(* The feedback table (schema.sql) and its queries *)

\* One row. id is the AUTOINCREMENT key: the rows are kept in id order and
\* none is ever deleted, so the row with id i is rows[i].
Row(id, source, text, sentiment, themes, urgency, created_at) ==
    [id |-> id, source |-> source, text |-> text, sentiment |-> sentiment,
     themes |-> themes, urgency |-> urgency, created_at |-> created_at]

LastCreatedAt(rs) == IF rs = <<>> THEN 0 ELSE rs[Len(rs)].created_at

\* INSERT INTO feedback ... RETURNING *: the new row, appended
\* a slip: the new row takes the place of the last one
InsertOver(rs, source, text, sentiment, themes, urgency, now) ==
    IF rs = <<>> THEN <<Row(1, source, text, sentiment, themes, urgency, now)>>
    ELSE [rs EXCEPT ![Len(rs)] = Row(Len(rs), source, text, sentiment, themes, urgency, now)]

InsertRow(rs, source, text, sentiment, themes, urgency, now) ==
    Append(rs, Row(Len(rs) + 1, source, text, sentiment, themes, urgency, now))

\* UPDATE feedback SET sentiment = ?, themes = ?, urgency = ? WHERE id = ?
\* a slip: the UPDATE has no WHERE clause
UpdateEvery(rs, id, analysis) ==
    [i \in DOMAIN rs |->
        [rs[i] EXCEPT !.sentiment = analysis.sentiment,
                      !.themes = analysis.themes,
                      !.urgency = analysis.urgency]]

UpdateRow(rs, id, analysis) ==
    [i \in DOMAIN rs |->
        IF rs[i].id = id
        THEN [rs[i] EXCEPT !.sentiment = analysis.sentiment,
                           !.themes = analysis.themes,
                           !.urgency = analysis.urgency]
        ELSE rs[i]]

\* the same SELECT without its WHERE clause
SelectAny(rs, id) == rs

\* SELECT * FROM feedback WHERE id = ?  (<<>> when there is none)
SelectById(rs, id) == SelectSeq(rs, LAMBDA r : r.id = id)

\* SELECT * FROM feedback WHERE sentiment IS NULL LIMIT 50, in rowid order
\* a slip: the LIMIT is left out
SelectAllUnanalyzed(rs) == SelectSeq(rs, LAMBDA r : r.sentiment = NULL)

SelectUnanalyzed(rs) == Take(SelectSeq(rs, LAMBDA r : r.sentiment = NULL), SelectLimit)

\* SELECT col, COUNT(*) FROM feedback [WHERE col IS NOT NULL] GROUP BY col
CountBy(rs, col, excludeNull) ==
    LET vals == {rs[i][col] : i \in DOMAIN rs} \ (IF excludeNull THEN {NULL} ELSE {})
    IN [v \in vals |-> Cardinality({i \in DOMAIN rs : rs[i][col] = v})]

\* the orders ORDER BY created_at DESC may give to the rows with these ids:
\* rows of the same second come in either order
RECURSIVE OrdersDesc(_, _)
OrdersDesc(rs, ids) ==
    IF ids = {} THEN {<<>>}
    ELSE UNION {{<<i>> \o o : o \in OrdersDesc(rs, ids \ {i})} :
                   i \in {j \in ids : \A k \in ids : rs[j].created_at >= rs[k].created_at}}

\* the word and the LIMIT of the recent_urgent query
UrgentWord(im) == IF im = "root" THEN "high" ELSE "urgent"
UrgentLimit(im) == IF im = "root" THEN 5 ELSE 10

----------------------------------------------------------------------------
(* The KV cache: each key holds <<>> (no value) or <<payload>> *)

EmptyCache == [stats |-> <<>>, insights |-> <<>>]

CacheDelete(c, key) == [c EXCEPT ![key] = <<>>]
CachePut(c, key, value) == [c EXCEPT ![key] = <<value>>]

\* a cache operation handed to ctx.waitUntil: it takes effect later
BgDelete(key) == [kind |-> "delete", key |-> key, value |-> <<>>]
BgPut(key, value) == [kind |-> "put", key |-> key, value |-> <<value>>]

----------------------------------------------------------------------------
(* Requests *)

NoBody == [source |-> NULL, text |-> NULL, sentiment |-> NULL, themes |-> NULL, urgency |-> NULL]
NoCounts == [v \in {} |-> 0]
NoStats == [total |-> 0, by_source |-> NoCounts, by_sentiment |-> NoCounts,
            by_urgency |-> NoCounts, recent_urgent |-> <<>>]

Idle == [op |-> "idle", pc |-> "idle", n |-> 0, body |-> NoBody, id |-> 0, stats |-> NoStats,
         todo |-> {}, feedback |-> <<>>, out |-> <<>>, analysis |-> <<>>, sel |-> <<>>,
         gi |-> 0, items |-> <<>>, dels |-> <<>>, ins |-> <<>>, resp |-> <<>>]

\* the record of the request that arrives for op: n numbers the requests
Request(op) == [Idle EXCEPT !.op = op, !.n = nreq + 1]

\* parseInt of a path segment that is no number
NaN == -1

\* p is free to take the next request
Free(p) == req[p].pc \in {"idle", "done"}

\* the handler returns this response
Return(p, r, response) == [r EXCEPT !.pc = "done", !.resp = <<response>>]

Response(status, xcache, body) == [status |-> status, xcache |-> xcache, body |-> body]

\* the catch of fetch: any error a handler lets through becomes a 500
InternalServerError == Response(500, "", "Internal Server Error")

----------------------------------------------------------------------------
(* POST /api/feedback: submitFeedback *)

Body(source, text, sentiment, themes, urgency) ==
    [source |-> source, text |-> text, sentiment |-> sentiment, themes |-> themes,
     urgency |-> urgency]

\* the request bodies tried: two plain ones, one that also carries a sentiment,
\* one that carries all three labels, and four with a field empty or missing
SubmitBodies ==
    {Body("GitHub", "crash", NULL, NULL, NULL),
     Body("Email", "love", NULL, NULL, NULL),
     Body("GitHub", "crash", "positive", NULL, NULL),
     Body("Email", "love", "positive", "ux", "low"),
     Body("", "crash", NULL, NULL, NULL),
     Body("GitHub", "", NULL, NULL, NULL),
     Body(NULL, "love", NULL, NULL, NULL),
     Body("Email", NULL, NULL, NULL, NULL)}

\* a slip: only the source is checked
MissingSource(body) == Falsy(body.source)

\* if (!body.source || !body.text)
MissingFields(body) == Falsy(body.source) \/ Falsy(body.text)

\* the labels the INSERT of each version binds
InsertedLabels(im, body) ==
    IF im = "root"
    THEN [sentiment |-> NULL, themes |-> NULL, urgency |-> NULL]
    ELSE [sentiment |-> OrNull(body.sentiment), themes |-> OrNull(body.themes),
          urgency |-> OrNull(body.urgency)]

\* The request arrives; a body without source or text is answered 400 at
\* once, any other is inserted. src/index.ts then awaits the cache delete
\* (SubmitInvalidate); src/src/index.ts hands it to waitUntil and returns.
SubmitFeedback(p, body) ==
    /\ Free(p)
    /\ LET r == [Request("submit") EXCEPT !.body = body]
       IN IF MissingFields(body)
          THEN /\ req' = [req EXCEPT ![p] =
                     Return(p, r, Response(400, "", "Missing required fields: source and text"))]
               /\ UNCHANGED <<rows, cache, bg>>
          ELSE /\ Len(rows) < MaxRows
               /\ \E now \in {LastCreatedAt(rows), LastCreatedAt(rows) + 1} :
                    LET l == InsertedLabels(impl, body)
                        rs == InsertRow(rows, body.source, body.text, l.sentiment, l.themes,
                                        l.urgency, now)
                        result == rs[Len(rs)]
                    IN /\ rows' = rs
                       /\ IF impl = "root"
                          THEN /\ req' = [req EXCEPT ![p] =
                                     [r EXCEPT !.pc = "submit_invalidate", !.feedback = <<result>>]]
                               /\ bg' = bg
                          ELSE /\ req' = [req EXCEPT ![p] =
                                     Return(p, [r EXCEPT !.dels = <<"stats">>],
                                            Response(201, "", result))]
                               /\ bg' = bg \cup {BgDelete("stats")}
                       /\ cache' = cache
    /\ nreq' = nreq + 1
    /\ UNCHANGED impl

\* src/index.ts: await env.CACHE.delete('stats'), then the 201
SubmitInvalidate(p) ==
    /\ req[p].pc = "submit_invalidate"
    /\ cache' = CacheDelete(cache, "stats")
    /\ req' = [req EXCEPT ![p] =
          Return(p, [req[p] EXCEPT !.dels = Append(@, "stats")],
                 Response(201, "", req[p].feedback[1]))]
    /\ UNCHANGED <<impl, rows, bg, nreq>>

----------------------------------------------------------------------------
(* GET /api/stats: getStats *)

StatsQueries == <<"total", "by_source", "by_sentiment", "by_urgency", "recent_urgent">>

\* the results one of the five queries may give on the table as it is now
StatsQueryResults(rs, im, q) ==
    CASE q = "total" -> {Len(rs)}
      [] q = "by_source" -> {CountBy(rs, "source", FALSE)}
      [] q = "by_sentiment" -> {CountBy(rs, "sentiment", TRUE)}
      [] q = "by_urgency" -> {CountBy(rs, "urgency", TRUE)}
      [] q = "recent_urgent" ->
            {[i \in DOMAIN Take(o, UrgentLimit(im)) |-> rs[o[i]]] :
                o \in OrdersDesc(rs, {i \in DOMAIN rs : rs[i].urgency = UrgentWord(im)})}

\* the queries a getStats that has todo left may run next: src/index.ts awaits
\* them one after the other, src/src/index.ts sends all five in a Promise.all
NextStatsQueries(im, todo) ==
    IF im = "root"
    THEN {StatsQueries[Len(StatsQueries) - Cardinality(todo) + 1]}
    ELSE todo

\* const cached = await env.CACHE.get('stats'); a hit is returned as it is
GetStats(p) ==
    /\ Free(p)
    /\ LET r == Request("stats")
       IN IF cache.stats # <<>>
          THEN req' = [req EXCEPT ![p] = Return(p, r, Response(200, "HIT", cache.stats[1]))]
          ELSE req' = [req EXCEPT ![p] =
                   [r EXCEPT !.pc = "stats_query", !.todo = Range(StatsQueries)]]
    /\ nreq' = nreq + 1
    /\ UNCHANGED <<impl, rows, cache, bg>>

\* one of the five queries is answered by the store
StatsQuery(p) ==
    /\ req[p].pc = "stats_query"
    /\ \E q \in NextStatsQueries(impl, req[p].todo) :
       \E res \in StatsQueryResults(rows, impl, q) :
          req' = [req EXCEPT ![p] =
              [req[p] EXCEPT !.stats = [@ EXCEPT ![q] = res],
                             !.todo = @ \ {q},
                             !.pc = IF req[p].todo = {q} THEN "stats_put" ELSE "stats_query"]]
    /\ UNCHANGED <<impl, rows, cache, bg, nreq>>

\* env.CACHE.put('stats', ..., {expirationTtl: 300}): awaited by src/index.ts,
\* handed to waitUntil by src/src/index.ts; then the response
StatsPut(p) ==
    /\ req[p].pc = "stats_put"
    /\ IF impl = "root"
       THEN /\ cache' = CachePut(cache, "stats", req[p].stats)
            /\ bg' = bg
       ELSE /\ bg' = bg \cup {BgPut("stats", req[p].stats)}
            /\ cache' = cache
    /\ req' = [req EXCEPT ![p] = Return(p, req[p], Response(200, "MISS", req[p].stats))]
    /\ UNCHANGED <<impl, rows, nreq>>

----------------------------------------------------------------------------
(* The cache's own steps *)

\* an operation handed to waitUntil takes effect
BgComplete ==
    /\ \E o \in bg :
          /\ cache' = IF o.kind = "delete" THEN CacheDelete(cache, o.key)
                      ELSE CachePut(cache, o.key, o.value[1])
          /\ bg' = bg \ {o}
    /\ UNCHANGED <<impl, rows, req, nreq>>

\* a value put with expirationTtl 300 expires
Expire ==
    /\ \E k \in Keys : cache[k] # <<>> /\ cache' = CacheDelete(cache, k)
    /\ UNCHANGED <<impl, rows, req, bg, nreq>>

----------------------------------------------------------------------------
(* POST /api/analyze/:id: analyzeFeedback *)

\* The request arrives. src/src/index.ts answers 400 to an id that is no
\* number; then SELECT * FROM feedback WHERE id = ?, and 404 when no row has it.
AnalyzeFeedback(p, id) ==
    /\ Free(p)
    /\ LET r == [Request("one") EXCEPT !.id = id]
           feedback == SelectById(rows, id)
       IN IF impl = "worker" /\ id = NaN
          THEN req' = [req EXCEPT ![p] = Return(p, r, Response(400, "", "Invalid feedback ID"))]
          ELSE IF feedback = <<>>
          THEN req' = [req EXCEPT ![p] = Return(p, r, Response(404, "", "Feedback not found"))]
          ELSE req' = [req EXCEPT ![p] = [r EXCEPT !.pc = "one_ai", !.feedback = feedback]]
    /\ nreq' = nreq + 1
    /\ UNCHANGED <<impl, rows, cache, bg>>

\* await analyzeWithAI(feedback.text, env) ends; what src/src/index.ts lets
\* through ends the request with the 500 of fetch
OneClassified(p, answers) ==
    /\ req[p].pc = "one_ai"
    /\ \E out \in answers :
          LET analysis == analyzeWithAI(impl, out)
              r == [req[p] EXCEPT !.out = <<out>>]
          IN IF analysis.threw
             THEN req' = [req EXCEPT ![p] = Return(p, r, InternalServerError)]
             ELSE req' = [req EXCEPT ![p] =
                      [r EXCEPT !.pc = "one_update", !.analysis = <<Labels(analysis)>>]]
    /\ UNCHANGED <<impl, rows, cache, bg, nreq>>

\* the UPDATE ends: it wrote the three labels, or the store failed (500).
\* src/src/index.ts then hands the cache delete to waitUntil and returns.
OneUpdate(p) ==
    /\ req[p].pc = "one_update"
    /\ \E ok \in BOOLEAN :
          IF ~ok
          THEN /\ req' = [req EXCEPT ![p] = Return(p, req[p], InternalServerError)]
               /\ UNCHANGED <<rows, bg>>
          ELSE LET rs == UpdateRow(rows, req[p].id, req[p].analysis[1])
               IN /\ rows' = rs
                  /\ IF impl = "root"
                     THEN /\ req' = [req EXCEPT ![p] = [req[p] EXCEPT !.pc = "one_invalidate"]]
                          /\ bg' = bg
                     ELSE /\ req' = [req EXCEPT ![p] =
                                Return(p, [req[p] EXCEPT !.dels = <<"stats">>],
                                       Response(200, "", rs[req[p].id]))]
                          /\ bg' = bg \cup {BgDelete("stats")}
    /\ UNCHANGED <<impl, cache, nreq>>

\* src/index.ts: await env.CACHE.delete('stats'), then { id, ...analysis }
OneInvalidate(p) ==
    /\ req[p].pc = "one_invalidate"
    /\ cache' = CacheDelete(cache, "stats")
    /\ req' = [req EXCEPT ![p] =
          Return(p, [req[p] EXCEPT !.dels = Append(@, "stats")],
                 Response(200, "", [id |-> req[p].id, analysis |-> req[p].analysis[1]]))]
    /\ UNCHANGED <<impl, rows, bg, nreq>>

----------------------------------------------------------------------------
(* POST /api/analyze-all: analyzeAllFeedback *)

\* One selected row's task: wait (its group has not started), ai (its
\* classifier call is in flight), db (its UPDATE is in flight), ok, fail.
\* out is how its classifier call ended, analysis what analyzeWithAI returned.
Item(st) == [st |-> st, out |-> <<>>, analysis |-> <<>>]

\* results.slice(i, i + batchSize), as indices of the selection
Group(gi, n) == {i \in 1..n : gi < i /\ i <= gi + batchSize}

\* batch.map(async ...): every task of the group runs up to its first await,
\* the classifier call
StartGroup(items, gi) ==
    [i \in DOMAIN items |-> IF i \in Group(gi, Len(items)) THEN Item("ai") ELSE items[i]]

\* a slip: the group counts as finished as soon as one of its tasks has ended
SettledAny(items, gi) == \E i \in Group(gi, Len(items)) : items[i].st \in {"ok", "fail"}

Settled(items, gi) == \A i \in Group(gi, Len(items)) : items[i].st \in {"ok", "fail"}

\* the classifier calls of the request that have not returned
InFlight(r) == Cardinality({i \in DOMAIN r.items : r.items[i].st = "ai"})

\* the per-item results in the order of the selection (Promise.all keeps it)
RootResults(r) == [i \in DOMAIN r.items |-> [id |-> r.sel[i].id, analysis |-> r.items[i].analysis[1]]]
WorkerResults(r) == [i \in DOMAIN r.items |-> [id |-> r.sel[i].id, success |-> r.items[i].st = "ok"]]

RootBatchBody(r) ==
    [analyzed |-> Len(RootResults(r)), results |-> RootResults(r)]

WorkerBatchBody(r) ==
    LET results == WorkerResults(r)
    IN [message |-> "Analysis complete", total |-> Len(results),
        successful |-> Len(SelectSeq(results, LAMBDA x : x.success)),
        failed |-> Len(SelectSeq(results, LAMBDA x : ~x.success)),
        results |-> results]

\* The selection is read. src/src/index.ts returns at once when it is empty;
\* otherwise the first group starts.
SelectAndStart(p) ==
    /\ Free(p)
    /\ LET sel == SelectUnanalyzed(rows)
           r == [Request("all") EXCEPT !.sel = sel]
       IN IF impl = "worker" /\ sel = <<>>
          THEN /\ req' = [req EXCEPT ![p] =
                     Return(p, r, Response(200, "", [message |-> "No unanalyzed feedback found",
                                                     analyzed |-> 0]))]
          ELSE IF sel = <<>>
          THEN /\ req' = [req EXCEPT ![p] = [r EXCEPT !.pc = "all_invalidate_stats"]]
          ELSE /\ req' = [req EXCEPT ![p] =
                     [r EXCEPT !.pc = "all_group",
                               !.items = StartGroup([i \in DOMAIN sel |-> Item("wait")], 0)]]
    /\ UNCHANGED <<impl, rows, cache, bg>>

\* The request arrives.
AnalyzeAll(p) == SelectAndStart(p) /\ nreq' = nreq + 1

\* One more of the calls of a client that calls again and again; they are not
\* counted.
AnalyzeAllAgain(p) == SelectAndStart(p) /\ nreq' = nreq

\* the classifier call of task i ends with one of the answers. src/src/index.ts catches what
\* analyzeWithAI throws (the item fails); otherwise the UPDATE is sent.
ItemClassified(p, i, answers) ==
    /\ req[p].op = "all"
    /\ i \in DOMAIN req[p].items
    /\ req[p].items[i].st = "ai"
    /\ \E out \in AIOutcomes(impl, req[p].sel[i].text) \cap answers :
          LET analysis == analyzeWithAI(impl, out)
          IN req' = [req EXCEPT ![p].items[i] =
                 IF analysis.threw
                 THEN [st |-> "fail", out |-> <<out>>, analysis |-> <<>>]
                 ELSE [st |-> "db", out |-> <<out>>, analysis |-> <<Labels(analysis)>>]]
    /\ UNCHANGED <<impl, rows, cache, bg, nreq>>

\* the UPDATE of task i ends. A failure is caught per item by
\* src/src/index.ts; in src/index.ts it rejects the task, Promise.all rejects
\* and the handler ends with the 500 of fetch while the other tasks of the
\* group run on.
ItemUpdated(p, i) ==
    /\ req[p].op = "all"
    /\ i \in DOMAIN req[p].items
    /\ req[p].items[i].st = "db"
    /\ \E ok \in BOOLEAN :
          IF ok
          THEN /\ rows' = UpdateRow(rows, req[p].sel[i].id, req[p].items[i].analysis[1])
               /\ req' = [req EXCEPT ![p].items[i].st = "ok"]
          ELSE /\ rows' = rows
               /\ req' = [req EXCEPT ![p] =
                      LET r == [req[p] EXCEPT !.items[i].st = "fail"]
                      IN IF impl = "root" /\ r.pc = "all_group"
                         THEN Return(p, r, InternalServerError)
                         ELSE r]
    /\ UNCHANGED <<impl, cache, bg, nreq>>

\* await Promise.all(batchPromises) resolves: the next group starts, or the
\* loop is over. src/src/index.ts then hands the delete of 'stats' to
\* waitUntil and returns the counts.
GroupDone(p) ==
    /\ req[p].pc = "all_group"
    /\ Settled(req[p].items, req[p].gi)
    /\ LET r == req[p]
           gi == r.gi + batchSize
       IN IF gi < Len(r.sel)
          THEN /\ req' = [req EXCEPT ![p] = [r EXCEPT !.gi = gi, !.items = StartGroup(r.items, gi)]]
               /\ bg' = bg
          ELSE IF impl = "root"
          THEN /\ req' = [req EXCEPT ![p] = [r EXCEPT !.pc = "all_invalidate_stats"]]
               /\ bg' = bg
          ELSE /\ req' = [req EXCEPT ![p] =
                     Return(p, [r EXCEPT !.dels = <<"stats">>],
                            Response(200, "", WorkerBatchBody(r)))]
               /\ bg' = bg \cup {BgDelete("stats")}
    /\ UNCHANGED <<impl, rows, cache, nreq>>

\* src/index.ts: await env.CACHE.delete('stats')
AllInvalidateStats(p) ==
    /\ req[p].pc = "all_invalidate_stats"
    /\ cache' = CacheDelete(cache, "stats")
    /\ req' = [req EXCEPT ![p] =
          [req[p] EXCEPT !.pc = "all_invalidate_insights", !.dels = Append(@, "stats")]]
    /\ UNCHANGED <<impl, rows, bg, nreq>>

\* src/index.ts: await env.CACHE.delete('insights'), then the response
AllInvalidateInsights(p) ==
    /\ req[p].pc = "all_invalidate_insights"
    /\ cache' = CacheDelete(cache, "insights")
    /\ req' = [req EXCEPT ![p] =
          Return(p, [req[p] EXCEPT !.dels = Append(@, "insights")],
                 Response(200, "", RootBatchBody(req[p])))]
    /\ UNCHANGED <<impl, rows, bg, nreq>>

----------------------------------------------------------------------------
(* GET /api/insights: getInsights *)

\* f.text.substring(0, 100) + '...'
Preview(text) == Substring(Chars(text), PreviewLength) \o Chars("...")

TopPriorityIssues(feedback) ==
    LET top == Take(SelectSeq(feedback, LAMBDA f : f.urgency = "high" /\ f.sentiment = "negative"), 5)
    IN [i \in DOMAIN top |-> [text |-> Preview(top[i].text), source |-> top[i].source,
                              themes |-> top[i].themes, created_at |-> top[i].created_at]]

QuickWins(feedback) ==
    LET top == Take(SelectSeq(feedback, LAMBDA f : f.sentiment = "positive"), 3)
    IN [i \in DOMAIN top |-> [text |-> Preview(top[i].text), themes |-> top[i].themes,
                              source |-> top[i].source]]

\* scores[f.sentiment] || 0
SentimentValue(sentiment) ==
    CASE sentiment = "positive" -> 1
      [] sentiment = "negative" -> -1
      [] OTHER -> 0

calculateSentimentScore(feedback) ==
    RoundDiv(100 * SeqSum([i \in DOMAIN feedback |-> SentimentValue(feedback[i].sentiment)]),
             Len(feedback))

\* f.themes?.includes(word)
IncludesTheme(f, word) == f.themes # NULL /\ Includes(Chars(f.themes), Chars(word))

TopFeatureRequests(feedback) ==
    LET top == Take(SelectSeq(feedback, LAMBDA f : IncludesTheme(f, "feature-request")), 5)
    IN [i \in DOMAIN top |-> [text |-> Preview(top[i].text), source |-> top[i].source,
                              sentiment |-> top[i].sentiment]]

\* f.themes.split(',').map(t => t.trim())
ThemeList(themes) ==
    LET parts == SplitComma(Chars(themes))
    IN [i \in DOMAIN parts |-> TrimChars(parts[i])]

\* the theme tags the two forEach loops meet, one element per occurrence with
\* the entry it came from; entries without themes are passed over
RECURSIVE Occurrences(_)
Occurrences(feedback) ==
    IF feedback = <<>> THEN <<>>
    ELSE LET f == Head(feedback)
             themeList == IF Falsy(f.themes) THEN <<>> ELSE ThemeList(f.themes)
         IN [i \in DOMAIN themeList |-> [theme |-> themeList[i], f |-> f]]
                \o Occurrences(Tail(feedback))

\* the keys of the themes object in the order of Object.entries: the order in
\* which the tags were first met
ThemeKeys(occ) ==
    LET first == {i \in DOMAIN occ : \A j \in 1..(i - 1) : occ[j].theme # occ[i].theme}
    IN [r \in 1..Cardinality(first) |->
           occ[CHOOSE i \in first : Cardinality({j \in first : j < i}) = r - 1].theme]

\* no sort: the entries in the order of Object.entries
SortNone(s) == s

\* .sort((a, b) => b.count - a.count): stable, equal counts keep their order
SortByCountDesc(s) ==
    LET rank(i) == 1 + Cardinality({j \in DOMAIN s :
                        s[j].count > s[i].count \/ (s[j].count = s[i].count /\ j < i)})
    IN [r \in DOMAIN s |-> s[CHOOSE i \in DOMAIN s : rank(i) = r]]

getPainPoints(feedback) ==
    LET occ == Occurrences(SelectSeq(feedback, LAMBDA f : f.sentiment = "negative"))
        keys == ThemeKeys(occ)
        count(t) == Cardinality({i \in DOMAIN occ : occ[i].theme = t})
        high(t) == Cardinality({i \in DOMAIN occ : occ[i].theme = t /\ occ[i].f.urgency = "high"})
    IN Take(SortByCountDesc([k \in DOMAIN keys |->
                [theme |-> keys[k], count |-> count(keys[k]),
                 severity |-> IF 2 * high(keys[k]) > count(keys[k]) THEN "high" ELSE "medium"]]), 5)

\* the action items, each as the rule that pushed it and the count in its text
ActionItem(rule, count) == [rule |-> rule, count |-> count]

generateActionItems(feedback) ==
    LET n(Test(_)) == Len(SelectSeq(feedback, Test))
        highUrgency == n(LAMBDA f : f.urgency = "high")
        bugs == n(LAMBDA f : IncludesTheme(f, "bug"))
        featureRequests == n(LAMBDA f : IncludesTheme(f, "feature-request"))
        negative == n(LAMBDA f : f.sentiment = "negative")
        performance == n(LAMBDA f : IncludesTheme(f, "performance"))
        documentation == n(LAMBDA f : IncludesTheme(f, "documentation"))
        items ==
            (IF highUrgency > 0 THEN <<ActionItem("high-urgency", highUrgency)>> ELSE <<>>)
            \o (IF bugs > 5 THEN <<ActionItem("bugs", bugs)>> ELSE <<>>)
            \o (IF featureRequests > 3 THEN <<ActionItem("feature-requests", featureRequests)>> ELSE <<>>)
            \o (IF Len(feedback) > 0 /\ 2 * (Len(feedback) - negative) < Len(feedback)
                THEN <<ActionItem("sentiment-negative", 0)>> ELSE <<>>)
            \o (IF performance > 2 THEN <<ActionItem("performance", performance)>> ELSE <<>>)
            \o (IF documentation > 2 THEN <<ActionItem("documentation", documentation)>> ELSE <<>>)
    IN IF items = <<>> THEN <<ActionItem("no-critical-issues", 0)>> ELSE items

getThemeBreakdown(feedback) ==
    LET occ == Occurrences(feedback)
        keys == ThemeKeys(occ)
        count(t) == Cardinality({i \in DOMAIN occ : occ[i].theme = t})
        negative(t) == Cardinality({i \in DOMAIN occ :
                            occ[i].theme = t /\ occ[i].f.sentiment = "negative"})
    IN Take(SortByCountDesc([k \in DOMAIN keys |->
                [theme |-> keys[k], count |-> count(keys[k]),
                 sentiment |-> IF 2 * negative(keys[k]) > count(keys[k])
                               THEN "negative" ELSE "positive"]]), 10)

\* src/index.ts: the insights object
RootInsights(feedback) ==
    [topPriorityIssues |-> TopPriorityIssues(feedback),
     topFeatureRequests |-> TopFeatureRequests(feedback),
     painPoints |-> getPainPoints(feedback),
     quickWins |-> QuickWins(feedback),
     sentimentScore |-> calculateSentimentScore(feedback),
     actionItems |-> generateActionItems(feedback),
     themeBreakdown |-> getThemeBreakdown(feedback)]

\* the answer of src/index.ts when no row is analyzed
NoInsights == [message |-> "No analyzed feedback yet", insights |-> <<>>]

\* the rows with these ids in an order ORDER BY created_at DESC may give
\* a slip: ORDER BY created_at without DESC
OrderedOldestFirst(rs, ids) ==
    {[i \in DOMAIN o |-> rs[o[Len(o) + 1 - i]]] : o \in OrdersDesc(rs, ids)}

OrderedRows(rs, ids) == {[i \in DOMAIN o |-> rs[o[i]]] : o \in OrdersDesc(rs, ids)}

WorkerInsightQueries == {"action_items", "feature_requests", "positive_highlights", "recent"}

\* text LIKE '%word%' (the texts of the model are in lower case)
Like(text, word) == Includes(Chars(text), Chars(word))

\* src/src/index.ts: the queries of getInsights on the table as it is now.
\* The last one keeps the rows of the last 7 days: those created at or after
\* some instant, which depends on how much time has passed.
WorkerInsightResults(rs, q) ==
    CASE q = "action_items" ->
            {Take(o, 5) : o \in OrderedRows(rs,
                {i \in DOMAIN rs : rs[i].urgency = "urgent" /\ rs[i].sentiment = "negative"})}
      [] q = "feature_requests" ->
            {Take(o, 5) : o \in OrderedRows(rs,
                {i \in DOMAIN rs : \/ Like(rs[i].text, "feature") \/ Like(rs[i].text, "request")
                                   \/ Like(rs[i].text, "add") \/ Like(rs[i].text, "support")})}
      [] q = "positive_highlights" ->
            {Take(o, 5) : o \in OrderedRows(rs, {i \in DOMAIN rs : rs[i].sentiment = "positive"})}
      [] q = "recent" ->
            UNION {OrderedRows(rs, {i \in DOMAIN rs : rs[i].created_at >= since}) :
                      since \in 0..(LastCreatedAt(rs) + 1)}

NoWorkerInsights == [action_items |-> <<>>, feature_requests |-> <<>>,
                     positive_highlights |-> <<>>, recent |-> <<>>]

\* sentimentTrend: the recent entries per sentiment, those without one left out
SentimentTrend(recentFeedback) == CountBy(recentFeedback, "sentiment", TRUE)

\* entry.themes.split(',').map(t => t.trim().toLowerCase()), empty tags dropped
LowerThemeList(themes) ==
    LET list == ThemeList(themes)
        lower == [i \in DOMAIN list |-> [k \in DOMAIN list[i] |-> LowerChar(list[i][k])]]
    IN SelectSeq(lower, LAMBDA t : t # <<>>)

RECURSIVE LowerOccurrences(_)
LowerOccurrences(recentFeedback) ==
    IF recentFeedback = <<>> THEN <<>>
    ELSE LET entry == Head(recentFeedback)
             themes == IF Falsy(entry.themes) THEN <<>> ELSE LowerThemeList(entry.themes)
         IN [i \in DOMAIN themes |-> [theme |-> themes[i], f |-> entry]]
                \o LowerOccurrences(Tail(recentFeedback))

\* topThemes: Object.entries(themeCounts).sort(...).slice(0, 10)
TopThemes(recentFeedback) ==
    LET occ == LowerOccurrences(recentFeedback)
        keys == ThemeKeys(occ)
    IN Take(SortByCountDesc([k \in DOMAIN keys |->
                [theme |-> keys[k],
                 count |-> Cardinality({i \in DOMAIN occ : occ[i].theme = keys[k]})]]), 10)

\* src/src/index.ts: the insights object, from the results of the four queries
WorkerInsights(results) ==
    [action_items |-> results.action_items,
     feature_requests |-> results.feature_requests,
     positive_highlights |-> results.positive_highlights,
     sentiment_trend |-> SentimentTrend(results.recent),
     top_themes |-> TopThemes(results.recent)]

\* The request arrives. src/index.ts looks 'insights' up in the cache and
\* returns a hit as it is; src/src/index.ts has no cache here and sends its
\* queries in a Promise.all.
GetInsights(p) ==
    /\ Free(p)
    /\ LET r == Request("insights")
       IN IF impl = "root" /\ cache.insights # <<>>
          THEN req' = [req EXCEPT ![p] = Return(p, r, Response(200, "HIT", cache.insights[1]))]
          ELSE req' = [req EXCEPT ![p] =
                   [r EXCEPT !.pc = "insights_query",
                             !.todo = IF impl = "root" THEN {"feedback"} ELSE WorkerInsightQueries,
                             !.ins = IF impl = "root" THEN <<>> ELSE <<NoWorkerInsights>>]]
    /\ nreq' = nreq + 1
    /\ UNCHANGED <<impl, rows, cache, bg>>

\* src/index.ts: SELECT * FROM feedback WHERE sentiment IS NOT NULL ORDER BY
\* created_at DESC; with no row the answer is returned and nothing is cached
RootInsightsQuery(p) ==
    /\ impl = "root"
    /\ req[p].pc = "insights_query"
    /\ \E feedback \in OrderedRows(rows, {i \in DOMAIN rows : rows[i].sentiment # NULL}) :
          IF Len(feedback) = 0
          THEN req' = [req EXCEPT ![p] = Return(p, req[p], Response(200, "", NoInsights))]
          ELSE req' = [req EXCEPT ![p] =
                   [req[p] EXCEPT !.pc = "insights_put", !.todo = {},
                                  !.ins = <<RootInsights(feedback)>>]]
    /\ UNCHANGED <<impl, rows, cache, bg, nreq>>

\* src/index.ts: await env.CACHE.put('insights', ..., {expirationTtl: 300})
RootInsightsPut(p) ==
    /\ req[p].pc = "insights_put"
    /\ cache' = CachePut(cache, "insights", req[p].ins[1])
    /\ req' = [req EXCEPT ![p] = Return(p, req[p], Response(200, "MISS", req[p].ins[1]))]
    /\ UNCHANGED <<impl, rows, bg, nreq>>

\* src/src/index.ts: one query of the Promise.all is answered; after the last
\* the insights are returned
WorkerInsightsQuery(p) ==
    /\ impl = "worker"
    /\ req[p].pc = "insights_query"
    /\ \E q \in req[p].todo :
       \E res \in WorkerInsightResults(rows, q) :
          LET r == [req[p] EXCEPT !.todo = @ \ {q}, !.ins = <<[@[1] EXCEPT ![q] = res]>>]
          IN req' = [req EXCEPT ![p] =
                 IF r.todo = {} THEN Return(p, r, Response(200, "", WorkerInsights(r.ins[1]))) ELSE r]
    /\ UNCHANGED <<impl, rows, cache, bg, nreq>>

----------------------------------------------------------------------------
(* The system *)

NoRequests == [p \in Procs |-> Idle]

\* the table after schema.sql, and after seed.sql put n rows without labels
Seeded(n) ==
    [i \in 1..n |-> Row(i, IF i % 2 = 1 THEN "GitHub" ELSE "Email",
                        IF i % 2 = 1 THEN "crash" ELSE "love", NULL, NULL, NULL, 0)]

\* every answer of the classifier
AllAnswers == UNION {AIOutcomes(im, text) : im \in Impls, text \in Texts}

\* a step of the request process p is serving
Step(p) ==
    \/ SubmitInvalidate(p)
    \/ StatsQuery(p)
    \/ StatsPut(p)
    \/ OneClassified(p, AIOutcomes(impl, req[p].feedback[1].text))
    \/ OneUpdate(p)
    \/ OneInvalidate(p)
    \/ \E i \in 1..MaxRows : ItemClassified(p, i, AllAnswers)
    \/ \E i \in 1..MaxRows : ItemUpdated(p, i)
    \/ GroupDone(p)
    \/ AllInvalidateStats(p)
    \/ AllInvalidateInsights(p)
    \/ RootInsightsQuery(p)
    \/ RootInsightsPut(p)
    \/ WorkerInsightsQuery(p)

\* a request arrives for p
Arrive(p) ==
    \/ \E body \in SubmitBodies : SubmitFeedback(p, body)
    \/ GetStats(p)
    \/ \E id \in (1..MaxRows) \cup {NaN} : AnalyzeFeedback(p, id)
    \/ AnalyzeAll(p)
    \/ GetInsights(p)

(* Spec: one request at a time, each served to its end before the next *)

Init ==
    /\ impl \in Impls
    /\ rows \in {Seeded(n) : n \in 0..1}
    /\ cache = EmptyCache
    /\ req = NoRequests
    /\ bg = {}
    /\ nreq = 0

Next ==
    \/ nreq < MaxReqs /\ Arrive(1)
    \/ Step(1)
    \/ BgComplete
    \/ Expire

Spec == Init /\ [][Next]_vars

(* SpecRace: process 1 serves the reads and process 2 the writes, their
   steps interleaved *)

ArriveRace(p) ==
    IF p = 1
    THEN GetStats(p) \/ GetInsights(p)
    ELSE \/ \E body \in SubmitBodies : SubmitFeedback(p, body)
         \/ \E id \in 1..MaxRows : AnalyzeFeedback(p, id)
         \/ AnalyzeAll(p)

NextRace ==
    \/ \E p \in Procs : nreq < MaxRaceReqs /\ ArriveRace(p)
    \/ \E p \in Procs : Step(p)
    \/ BgComplete
    \/ Expire

SpecRace == Init /\ [][NextRace]_vars

(* SpecBatch: one analyzeAll call on a table of up to MaxBatchRows rows
   without labels; the classifier answers well or fails *)

BatchAnswers == {AIThrow} \cup {GoodAnswer(im, text) : im \in Impls, text \in Texts}

InitBatch ==
    /\ impl \in Impls
    /\ rows \in {Seeded(n) : n \in 0..MaxBatchRows}
    /\ cache = EmptyCache
    /\ req = NoRequests
    /\ bg = {}
    /\ nreq = 0

NextBatch ==
    \/ nreq < 1 /\ AnalyzeAll(1)
    \/ \E i \in 1..MaxBatchRows : ItemClassified(1, i, BatchAnswers)
    \/ \E i \in 1..MaxBatchRows : ItemUpdated(1, i)
    \/ GroupDone(1)
    \/ AllInvalidateStats(1)
    \/ AllInvalidateInsights(1)
    \/ BgComplete

SpecBatch == InitBatch /\ [][NextBatch]_vars

(* SpecInsights: one getInsights call of src/index.ts on a table of analyzed
   rows. A table holds some rows of each of six kinds, in the order of the
   kinds, each row created later than the one before it. *)

\* the labels of the kinds: what analyzeWithAI stored for the classifier's answers
InsightKinds ==
    <<[sentiment |-> "negative", urgency |-> "high", themes |-> "bug"],
      [sentiment |-> "neutral", urgency |-> "low", themes |-> "feature-request"],
      [sentiment |-> "negative", urgency |-> "medium", themes |-> "bug, performance"],
      [sentiment |-> "positive", urgency |-> "low", themes |-> "documentation"],
      [sentiment |-> "positive", urgency |-> "medium", themes |-> "debug"],
      [sentiment |-> "negative", urgency |-> "high", themes |-> ManyThemes]>>

InsightCounts ==
    {<<bug, feature, performance, documentation, debug, many>> :
        bug \in 0..MaxBugRows, feature \in 0..MaxFeatureRows,
        performance \in 0..MaxPerformanceRows, documentation \in 0..MaxDocumentationRows,
        debug \in 0..MaxDebugRows, many \in 0..MaxManyRows}

\* the kind of the i-th row of the table with c[k] rows of kind k
KindAt(c, i) == CHOOSE k \in 1..6 : SeqSum(SubSeq(c, 1, k - 1)) < i /\ i <= SeqSum(SubSeq(c, 1, k))

\* the texts of the kinds: longer than a preview, as long as one, shorter
InsightTexts == <<"long", "exact", "crash", "crash", "long", "crash">>

InsightTable(c) ==
    [i \in 1..SeqSum(c) |->
        LET kind == InsightKinds[KindAt(c, i)]
        IN Row(i, "GitHub", InsightTexts[KindAt(c, i)], kind.sentiment, kind.themes,
               kind.urgency, i)]

InitInsights ==
    /\ impl = "root"
    /\ rows \in {InsightTable(c) : c \in InsightCounts}
    /\ cache = EmptyCache
    /\ req = NoRequests
    /\ bg = {}
    /\ nreq = 0

NextInsights ==
    \/ nreq < 1 /\ GetInsights(1)
    \/ RootInsightsQuery(1)
    \/ RootInsightsPut(1)

SpecInsights == InitInsights /\ [][NextInsights]_vars

(* SpecSelect: one analyzeAll call on a table that holds about SelectLimit
   unanalyzed rows behind the rows already analyzed. The first MaxFreeTasks
   tasks end in any order, with any answer and outcome of the UPDATE; the
   tasks after them end one after the other and succeed. *)

SelectTable(im, analyzed, unanalyzed) ==
    [i \in 1..(analyzed + unanalyzed) |->
        IF i <= analyzed
        THEN LET labels == analyzeWithAI(im, NoLines)
             IN Row(i, "Email", "love", labels.sentiment, labels.themes, labels.urgency, 0)
        ELSE Row(i, IF i % 2 = 1 THEN "GitHub" ELSE "Email",
                 IF i % 2 = 1 THEN "crash" ELSE "love", NULL, NULL, NULL, 0)]

InitSelect ==
    /\ impl \in Impls
    /\ rows \in {SelectTable(impl, a, u) : a \in 0..MaxAnalyzedRows,
                                           u \in (SelectLimit - 1)..(SelectLimit + MaxExtraRows)}
    /\ cache = EmptyCache
    /\ req = NoRequests
    /\ bg = {}
    /\ nreq = 0

EndedBefore(i) == \A j \in 1..(i - 1) : req[1].items[j].st \in {"ok", "fail"}

NextSelect ==
    \/ nreq < 1 /\ AnalyzeAll(1)
    \/ \E i \in 1..MaxFreeTasks : ItemClassified(1, i, BatchAnswers)
    \/ \E i \in 1..MaxFreeTasks : ItemUpdated(1, i)
    \/ \E i \in (MaxFreeTasks + 1)..SelectLimit :
          /\ i \in DOMAIN req[1].items
          /\ EndedBefore(i)
          /\ \/ ItemClassified(1, i, BatchAnswers \ {AIThrow})
             \/ ItemUpdated(1, i) /\ rows' # rows
    \/ GroupDone(1)
    \/ AllInvalidateStats(1)
    \/ AllInvalidateInsights(1)
    \/ BgComplete

SpecSelect == InitSelect /\ [][NextSelect]_vars

(* SpecUrgent: one getStats or getInsights call on a table of n negative rows
   of the version's highest urgency, each created later than the one before
   it; behind them there may be two later rows, one of that urgency and
   positive, one negative and of low urgency. *)

UrgentTable(im, n, others) ==
    [i \in 1..(IF others THEN n + 2 ELSE n) |->
        IF i <= n THEN Row(i, "GitHub", "crash", "negative", "bug", UrgentWord(im), i)
        ELSE IF i = n + 1 THEN Row(i, "Email", "love", "positive", "ux", UrgentWord(im), i)
        ELSE Row(i, "GitHub", "crash", "negative", "bug", "low", i)]

InitUrgent ==
    /\ impl \in Impls
    /\ rows \in {UrgentTable(impl, n, others) : n \in 0..MaxUrgentRows, others \in BOOLEAN}
    /\ cache = EmptyCache
    /\ req = NoRequests
    /\ bg = {}
    /\ nreq = 0

NextUrgent ==
    \/ nreq < 1 /\ GetStats(1)
    \/ nreq < 1 /\ GetInsights(1)
    \/ StatsQuery(1)
    \/ StatsPut(1)
    \/ RootInsightsQuery(1)
    \/ RootInsightsPut(1)
    \/ WorkerInsightsQuery(1)
    \/ BgComplete

SpecUrgent == InitUrgent /\ [][NextUrgent]_vars

(* SpecAgain: analyzeAll is called again and again on a table of rows
   without labels. Every call may find the classifier failing. A step that is
   possible is taken at some time, and an UPDATE that is tried again and again
   succeeds at some time. *)

InitAgain ==
    /\ impl \in Impls
    /\ rows \in {Seeded(n) : n \in 0..MaxAgainRows}
    /\ cache = EmptyCache
    /\ req = NoRequests
    /\ bg = {}
    /\ nreq = 0

NextAgain ==
    \/ AnalyzeAllAgain(1)
    \/ \E i \in 1..MaxAgainRows : ItemClassified(1, i, BatchAnswers)
    \/ \E i \in 1..MaxAgainRows : ItemUpdated(1, i)
    \/ GroupDone(1)
    \/ AllInvalidateStats(1)
    \/ AllInvalidateInsights(1)
    \/ BgComplete

\* an UPDATE of a task succeeds
UpdateDone == \E i \in 1..MaxAgainRows : ItemUpdated(1, i) /\ rows' # rows

SpecAgain ==
    InitAgain /\ [][NextAgain]_vars /\ WF_vars(NextAgain) /\ SF_vars(UpdateDone)

(* SpecExtract: one analyzeFeedback call on the one row of the table, the
   classifier free to answer anything of AIOutcomes and of LooseAnswers *)

InitExtract ==
    /\ impl \in Impls
    /\ rows = Seeded(1)
    /\ cache = EmptyCache
    /\ req = NoRequests
    /\ bg = {}
    /\ nreq = 0

NextExtract ==
    \/ nreq < 1 /\ AnalyzeFeedback(1, 1)
    \/ OneClassified(1, AIOutcomes(impl, rows[1].text) \cup LooseAnswers)
    \/ OneUpdate(1)
    \/ OneInvalidate(1)
    \/ BgComplete

SpecExtract == InitExtract /\ [][NextExtract]_vars

----------------------------------------------------------------------------
(* Properties *)

\* process p has answered a request of kind op
Answered(p, op) == req[p].op = op /\ req[p].pc = "done"

Status(p) == req[p].resp[1].status

\* this step takes a request for p, and this step lets p's handler return
Arrived(p) == req'[p].n # req[p].n
Returned(p) == req'[p].pc = "done" /\ (req[p].pc # "done" \/ Arrived(p))

Count(s, x) == Cardinality({i \in DOMAIN s : s[i] = x})

\* the triple of defaults of each version's analyzeWithAI
Defaults(im) ==
    IF im = "root" THEN [sentiment |-> "neutral", themes |-> "general", urgency |-> "medium"]
    ELSE [sentiment |-> "neutral", themes |-> "", urgency |-> "normal"]

\* the classifier call failed: it threw or gave no response text
CallFailed(out) == out.kind # "text"

\* the task's UPDATE failed (it had labels to write)
PersistFailed(item) == item.st = "fail" /\ item.analysis # <<>>

\* C1: when a successful submitFeedback or a successful analyzeOne on an
\* existing row returns, the cache holds neither 'stats' nor 'insights'.
C1_BothKeysAbsentOnReturn ==
    [][\A p \in Procs :
          (Returned(p) /\ req'[p].op \in {"submit", "one"} /\ req'[p].resp[1].status \in {200, 201})
              => (cache'.stats = <<>> /\ cache'.insights = <<>>)]_vars

\* C2: an analyzeAll call that has ended has deleted 'stats' exactly once and
\* 'insights' exactly once, and a call deletes no key while a task of it is
\* still waiting or running (also with an empty selection or a failed item).
C2_BothKeysDeletedOnceAfterGroups ==
    \A p \in Procs :
        /\ Answered(p, "all") =>
              Count(req[p].dels, "stats") = 1 /\ Count(req[p].dels, "insights") = 1
        /\ (req[p].op = "all" /\ req[p].dels # <<>>) =>
              \A i \in DOMAIN req[p].items : req[p].items[i].st \in {"ok", "fail"}

\* C4: an analyzeAll call in which the UPDATE of an item failed ends with a
\* normal batch result (200) that marks the item failed, with every selected
\* item processed.
C4_PersistFailureKeptPerItem ==
    \A p \in Procs :
        (Answered(p, "all") /\ \E i \in DOMAIN req[p].items : PersistFailed(req[p].items[i]))
            => /\ Status(p) = 200
               /\ \A i \in DOMAIN req[p].items :
                     /\ req[p].items[i].st \in {"ok", "fail"}
                     /\ PersistFailed(req[p].items[i])
                           => req[p].resp[1].body.results[i].success = FALSE

\* C5: whenever the classifier call of analyzeWithAI threw or gave a response
\* that cannot be parsed, analyzeWithAI returned the triple of defaults (it did
\* not raise), in analyzeOne and in every task of analyzeAll.
C5_ExtractorNeverThrows ==
    \A p \in Procs :
        /\ (req[p].out # <<>> /\ (CallFailed(req[p].out[1]) \/ req[p].out[1] = NoLines))
              => req[p].analysis = <<Defaults(impl)>>
        /\ \A i \in DOMAIN req[p].items :
              LET item == req[p].items[i]
              IN (item.out # <<>> /\ (CallFailed(item.out[1]) \/ item.out[1] = NoLines))
                    => item.analysis = <<Defaults(impl)>>

\* C6: at every moment of an analyzeAll call at most 5 of its classifier calls
\* are in flight.
C6_AtMostFiveInFlight == \A p \in Procs : InFlight(req[p]) <= 5

\* a sixth row was selected and the first group is still classifying
C6_Witness ==
    \E p \in Procs : Len(req[p].sel) > 5 /\ InFlight(req[p]) = 5

\* the successes and failures the batch result reports: src/index.ts reports
\* the number analyzed and no failure
Successes(im, body) == IF im = "root" THEN body.analyzed ELSE body.successful
Failures(im, body) == IF im = "root" THEN 0 ELSE body.failed

\* C7: an analyzeAll call that selected n rows, the classifier failing for k
\* of them and no UPDATE failing, reports n - k successes, k failures and n
\* per-item results.
C7_BatchCountsClassifierFailures ==
    \A p \in Procs :
        (/\ Answered(p, "all") /\ Status(p) = 200 /\ req[p].sel # <<>>
         /\ \A i \in DOMAIN req[p].items : ~PersistFailed(req[p].items[i]))
            => LET n == Len(req[p].sel)
                   k == Cardinality({i \in DOMAIN req[p].items : CallFailed(req[p].items[i].out[1])})
                   body == req[p].resp[1].body
               IN /\ Successes(impl, body) = n - k
                  /\ Failures(impl, body) = k
                  /\ Len(body.results) = n

\* C8: when an analyzeAll call has returned its batch result, every row it
\* selected has a sentiment.
C8_SelectedRowsLabelled ==
    \A p \in Procs :
        (Answered(p, "all") /\ Status(p) = 200)
            => \A i \in DOMAIN req[p].sel : rows[req[p].sel[i].id].sentiment # NULL

\* C9: every row has sentiment, themes and urgency all NULL or all not NULL.
C9_NoPartialLabels ==
    \A i \in DOMAIN rows :
        \/ rows[i].sentiment = NULL /\ rows[i].themes = NULL /\ rows[i].urgency = NULL
        \/ rows[i].sentiment # NULL /\ rows[i].themes # NULL /\ rows[i].urgency # NULL

\* C10: a submitFeedback whose source or text is empty or missing is answered
\* 400 in the step that takes it, and that step changes neither the rows nor
\* the cache (nor hands the cache anything to do).
C10_InvalidSubmitRejected ==
    [][\A p \in Procs :
          (/\ Arrived(p) /\ req'[p].op = "submit"
           /\ req'[p].body.source \in {NULL, ""} \/ req'[p].body.text \in {NULL, ""})
              => /\ req'[p].pc = "done"
                 /\ req'[p].resp[1].status = 400
                 /\ rows' = rows
                 /\ cache' = cache
                 /\ bg' = bg]_vars

\* a submit without text was rejected while rows and a cached value existed
C10_Witness ==
    \E p \in Procs :
        /\ Answered(p, "submit") /\ Status(p) = 400
        /\ Falsy(req[p].body.text) /\ ~Falsy(req[p].body.source)
        /\ rows # <<>>
        /\ cache.stats # <<>>

\* the values each key may hold when computed from the table as it is now
FreshStats(rs, im) ==
    {[total |-> Len(rs), by_source |-> CountBy(rs, "source", FALSE),
      by_sentiment |-> CountBy(rs, "sentiment", TRUE),
      by_urgency |-> CountBy(rs, "urgency", TRUE), recent_urgent |-> recent] :
        recent \in StatsQueryResults(rs, im, "recent_urgent")}

FreshInsights(rs) ==
    {RootInsights(feedback) :
        feedback \in OrderedRows(rs, {i \in DOMAIN rs : rs[i].sentiment # NULL})}

\* no request is being served and no cache operation is pending
Quiescent == (\A p \in Procs : Free(p)) /\ bg = {}

\* C3: once every write has returned (and every read has ended), a value
\* still stored under 'stats' or 'insights' is one computed from the rows as
\* they are now: no recomputation that read the table before a write has left
\* its result in the cache.
C3_NoStaleValueAfterWrite ==
    Quiescent =>
        /\ cache.stats # <<>> => cache.stats[1] \in FreshStats(rows, impl)
        /\ cache.insights # <<>> => cache.insights[1] \in FreshInsights(rows)

\* the sum of the counts of a { value: count } object
SumCounts(f) == Cardinality(UNION {{<<v, k>> : k \in 1..f[v]} : v \in DOMAIN f})

\* the cache key of a read request
KeyOf(op) == IF op = "stats" THEN "stats" ELSE "insights"

\* C11: analyzeOne(id) for an id that no row of the store has answers 404
\* (NotFound) and changes nothing: no classification call is made, no row is
\* updated and no cache key is deleted, at once or later.
C11_UnknownIdNotFound ==
    [][\A p \in Procs :
          (/\ Arrived(p) /\ req'[p].op = "one" /\ req'[p].id # NaN
           /\ \A i \in DOMAIN rows : rows[i].id # req'[p].id)
              => /\ req'[p].pc = "done" /\ req'[p].resp[1].status = 404
                 /\ req'[p].out = <<>> /\ req'[p].analysis = <<>>
                 /\ rows' = rows /\ cache' = cache /\ bg' = bg]_vars

C11_Witness ==
    \E p \in Procs :
        /\ Answered(p, "one") /\ Status(p) = 404 /\ req[p].id # NaN
        /\ rows # <<>> /\ \A i \in DOMAIN rows : rows[i].sentiment = NULL
        /\ cache.stats # <<>>

\* C12: a getStats call that follows a getStats call, with no write between
\* the two and the value of the first not yet expired (it is in the cache, or
\* its put has still to take effect), is answered at once, without a store
\* query, with exactly the payload of the first.
C12_SecondGetStatsServedFromCache ==
    [][\A p \in Procs :
          (/\ Arrived(p) /\ req'[p].op = "stats"
           /\ Answered(p, "stats") /\ Status(p) = 200
           /\ cache.stats # <<>> \/ BgPut("stats", req[p].resp[1].body) \in bg)
              => /\ req'[p].pc = "done"
                 /\ req'[p].resp[1].body = req[p].resp[1].body]_vars

\* C13: when a getStats or getInsights call that missed the cache returns,
\* its result is stored under its key.
C13_MissRepopulatesBeforeReturn ==
    [][\A p \in Procs :
          (/\ Returned(p) /\ req'[p].op \in {"stats", "insights"}
           /\ req'[p].resp[1].xcache # "HIT")
              => cache'[KeyOf(req'[p].op)] = <<req'[p].resp[1].body>>]_vars

\* C14: in every payload getStats computes, the counts of by_source sum to
\* total, and the counts of by_sentiment plus the number of rows without
\* sentiment sum to total, also when writes run during the computation.
C14_StatsCountsSumToTotal ==
    [][\A p \in Procs :
          (/\ Returned(p) /\ req'[p].op = "stats" /\ req'[p].resp[1].xcache = "MISS")
              => LET stats == req'[p].resp[1].body
                     nulls == Cardinality({i \in DOMAIN rows' : rows'[i].sentiment = NULL})
                 IN /\ SumCounts(stats.by_source) = stats.total
                    /\ SumCounts(stats.by_sentiment) + nulls = stats.total]_vars

\* C15: when no row of the store has a sentiment, getInsights answers with
\* the empty-state sentinel (a message and no derived structure).
C15_NoAnalyzedRowsGiveSentinel ==
    [][\A p \in Procs :
          (/\ Returned(p) /\ req'[p].op = "insights"
           /\ \A i \in DOMAIN rows' : rows'[i].sentiment = NULL)
              => req'[p].resp[1].body = NoInsights]_vars

\* the analyzed entries: the rows that have a sentiment
Analyzed(rs) == SelectSeq(rs, LAMBDA r : r.sentiment # NULL)

Abs(x) == IF x < 0 THEN -x ELSE x
Min(a, b) == IF a < b THEN a ELSE b

\* the theme tags of an entry: its themes split at the commas, each piece trimmed
TagsOf(f) == IF Falsy(f.themes) THEN <<>> ELSE ThemeList(f.themes)
AllTags(entries) == UNION {Range(TagsOf(entries[i])) : i \in DOMAIN entries}

\* the entry carries the tag
Tagged(f, tag) == Chars(tag) \in Range(TagsOf(f))

\* how often the tag occurs in the entries that satisfy the test
TagCount(entries, tag) == SeqSum([i \in DOMAIN entries |-> Count(TagsOf(entries[i]), tag)])

\* a getInsights call of src/index.ts that computed its answer returns
Computed(p) ==
    /\ Returned(p) /\ req'[p].op = "insights"
    /\ req'[p].resp[1].status = 200 /\ req'[p].resp[1].xcache = "MISS"

\* C16: sentimentScore is an integer in [-100, 100], a nearest integer of
\* 100 * (positive entries - negative entries) / analyzed entries.
C16_SentimentScoreRounded ==
    [][\A p \in Procs :
          Computed(p) =>
              LET entries == Analyzed(rows')
                  positive == Cardinality({i \in DOMAIN entries : entries[i].sentiment = "positive"})
                  negative == Cardinality({i \in DOMAIN entries : entries[i].sentiment = "negative"})
                  score == req'[p].resp[1].body.sentimentScore
              IN /\ score \in -100..100
                 /\ 2 * Abs(score * Len(entries) - 100 * (positive - negative)) <= Len(entries)]_vars

\* two negative entries and a positive one: round(-100 / 3) = -33
C16_Witness ==
    \E p \in Procs :
        /\ Answered(p, "insights") /\ req[p].resp[1].xcache = "MISS"
        /\ Len(rows) = 3 /\ rows[1].sentiment = "negative" /\ rows[2].sentiment = "negative"
        /\ rows[3].sentiment = "positive"
        /\ req[p].resp[1].body.sentimentScore = -33

\* the rules of the action items that fire for these entries, in their order
ExpectedRules(entries) ==
    LET n == Len(entries)
        tagged(tag) == Cardinality({i \in DOMAIN entries : Tagged(entries[i], tag)})
        negative == Cardinality({i \in DOMAIN entries : entries[i].sentiment = "negative"})
        fired == (IF \E i \in DOMAIN entries : entries[i].urgency = "high"
                  THEN <<"high-urgency">> ELSE <<>>)
                 \o (IF tagged("bug") > 5 THEN <<"bugs">> ELSE <<>>)
                 \o (IF tagged("feature-request") > 3 THEN <<"feature-requests">> ELSE <<>>)
                 \o (IF 2 * (n - negative) < n THEN <<"sentiment-negative">> ELSE <<>>)
                 \o (IF tagged("performance") > 2 THEN <<"performance">> ELSE <<>>)
                 \o (IF tagged("documentation") > 2 THEN <<"documentation">> ELSE <<>>)
    IN IF fired = <<>> THEN <<"no-critical-issues">> ELSE fired

\* C17: actionItems is the sequence of the seven rules applied in their fixed
\* order, the first with the number of high-urgency entries, the last one
\* exactly when none of the six fired; it is never empty.
C17_ActionItemsBySevenRules ==
    [][\A p \in Procs :
          Computed(p) =>
              LET entries == Analyzed(rows')
                  items == req'[p].resp[1].body.actionItems
              IN /\ items # <<>>
                 /\ [i \in DOMAIN items |-> items[i].rule] = ExpectedRules(entries)
                 /\ \A i \in DOMAIN items :
                       items[i].rule = "high-urgency" =>
                           items[i].count = Cardinality({j \in DOMAIN entries :
                                                            entries[j].urgency = "high"})]_vars

\* the same for themes of the vocabulary only: substring and tag agree there
ActionItemsInVocabulary ==
    [][\A p \in Procs :
          (Computed(p) /\ \A i \in DOMAIN rows' : rows'[i].themes # "debug")
              => [i \in DOMAIN req'[p].resp[1].body.actionItems |->
                      req'[p].resp[1].body.actionItems[i].rule] = ExpectedRules(Analyzed(rows'))]_vars

\* the table is a grouping of the tags of the entries as the claims describe
\* it: one row per tag with its number of occurrences, the rows with the
\* largest counts, at most limit of them, largest count first
GroupedByTag(table, entries, limit) ==
    /\ Len(table) = Min(limit, Cardinality(AllTags(entries)))
    /\ \A i \in DOMAIN table :
          /\ table[i].theme \in AllTags(entries)
          /\ table[i].count = TagCount(entries, table[i].theme)
    /\ \A i, j \in DOMAIN table : i < j =>
          table[i].count >= table[j].count /\ table[i].theme # table[j].theme
    /\ \A tag \in AllTags(entries) \ {table[i].theme : i \in DOMAIN table} :
          \A i \in DOMAIN table : table[i].count >= TagCount(entries, tag)

\* C19: painPoints has one row per theme tag of the negative entries, with
\* the number of its occurrences among them, severity high iff more than half
\* of these have urgency high, sorted by count descending, at most 5 rows.
C19_PainPointsFromNegative ==
    [][\A p \in Procs :
          Computed(p) =>
              LET negative == SelectSeq(Analyzed(rows'), LAMBDA f : f.sentiment = "negative")
                  high == SelectSeq(negative, LAMBDA f : f.urgency = "high")
                  painPoints == req'[p].resp[1].body.painPoints
              IN /\ GroupedByTag(painPoints, negative, 5)
                 /\ \A i \in DOMAIN painPoints :
                       painPoints[i].severity = "high" <=>
                           2 * TagCount(high, painPoints[i].theme) > painPoints[i].count]_vars

\* more than 5 themes among the negative entries, severities of both kinds,
\* and a theme that only positive entries carry
C19_Witness ==
    \E p \in Procs :
        /\ Answered(p, "insights") /\ req[p].resp[1].xcache = "MISS"
        /\ LET painPoints == req[p].resp[1].body.painPoints
           IN /\ Len(painPoints) = 5
              /\ Cardinality(AllTags(SelectSeq(rows, LAMBDA f : f.sentiment = "negative"))) > 5
              /\ painPoints[1].theme = Chars("bug") /\ painPoints[1].count > painPoints[2].count
              /\ \E i, j \in DOMAIN painPoints :
                    painPoints[i].severity = "high" /\ painPoints[j].severity = "medium"
              /\ \E i \in DOMAIN rows : rows[i].themes = "documentation"

\* the theme table of an answer: themeBreakdown, top_themes in src/src/index.ts
ThemeTable(im, body) == IF im = "root" THEN body.themeBreakdown ELSE body.top_themes

\* C18: the theme table counts each comma-separated, trimmed tag of all
\* analyzed entries on its own, marks a theme negative iff more than half of
\* its occurrences are in negative entries, is sorted by count descending and
\* has at most 10 rows.
C18_ThemeBreakdownByTag ==
    [][\A p \in Procs :
          (/\ Returned(p) /\ req'[p].op = "insights" /\ req'[p].resp[1].xcache # "HIT"
           /\ Analyzed(rows') # <<>>)
              => LET entries == Analyzed(rows')
                     negative == SelectSeq(entries, LAMBDA f : f.sentiment = "negative")
                     table == ThemeTable(impl, req'[p].resp[1].body)
                 IN /\ GroupedByTag(table, entries, 10)
                    /\ \A i \in DOMAIN table :
                          /\ "sentiment" \in DOMAIN table[i]
                          /\ table[i].sentiment = "negative" <=>
                                2 * TagCount(negative, table[i].theme) > table[i].count]_vars

\* the same of src/index.ts alone
RootThemeBreakdownByTag ==
    [][\A p \in Procs :
          Computed(p) =>
              LET entries == Analyzed(rows')
                  negative == SelectSeq(entries, LAMBDA f : f.sentiment = "negative")
                  table == req'[p].resp[1].body.themeBreakdown
              IN /\ GroupedByTag(table, entries, 10)
                 /\ \A i \in DOMAIN table :
                       table[i].sentiment = "negative" <=>
                           2 * TagCount(negative, table[i].theme) > table[i].count]_vars

\* C21: every successful submitFeedback adds exactly one row, with an id no
\* row had before and with sentiment, themes and urgency all null, whatever
\* else the body carries; the rows that were there stay as they were.
C21_SubmitAddsOneUnlabelledRow ==
    [][\A p \in Procs :
          (/\ Arrived(p) /\ req'[p].op = "submit"
           /\ ~(req'[p].pc = "done" /\ req'[p].resp[1].status >= 400))
              => /\ Len(rows') = Len(rows) + 1
                 /\ SubSeq(rows', 1, Len(rows)) = rows
                 /\ \A i \in DOMAIN rows : rows[i].id # rows'[Len(rows')].id
                 /\ rows'[Len(rows')].sentiment = NULL
                 /\ rows'[Len(rows')].themes = NULL
                 /\ rows'[Len(rows')].urgency = NULL]_vars

\* the closed urgency vocabulary of each version, its default, and the themes
\* default
UrgencyVocabulary(im) == IF im = "root" THEN Range(RootUrgencies) ELSE WorkerUrgencies

\* the value of a line is a word of the vocabulary (in any case, trimmed)
InVocabulary(v, vocabulary) == v # NULL /\ LowerOf(TrimOf(v)) \in vocabulary

\* C22: for every classifier response the extractor returns a triple whose
\* sentiment is positive, negative or neutral and whose urgency is in the
\* version's vocabulary; a value that is missing or outside the vocabulary
\* gives the default of its field, a value of the vocabulary gives itself,
\* each field on its own.
C22_LabelsInClosedVocabulary ==
    [][\A p \in Procs :
          (/\ req[p].op = "one" /\ req[p].pc = "one_ai" /\ req'[p].pc # "one_ai"
           /\ req'[p].out[1].kind # "throw")
              => /\ req'[p].analysis # <<>>
                 /\ LET out == req'[p].out[1]
                        analysis == req'[p].analysis[1]
                    IN /\ analysis.sentiment \in Sentiments
                       /\ analysis.urgency \in UrgencyVocabulary(impl)
                       /\ analysis.sentiment =
                             IF InVocabulary(out.sentiment, Sentiments)
                             THEN LowerOf(TrimOf(out.sentiment)) ELSE Defaults(impl).sentiment
                       /\ analysis.urgency =
                             IF InVocabulary(out.urgency, UrgencyVocabulary(impl))
                             THEN LowerOf(TrimOf(out.urgency)) ELSE Defaults(impl).urgency]_vars

\* the same for the answers that have their text, without the clause on
\* values outside the vocabulary
LabelsOfTextInVocabulary ==
    [][\A p \in Procs :
          (/\ req[p].op = "one" /\ req[p].pc = "one_ai" /\ req'[p].pc # "one_ai"
           /\ req'[p].out[1].kind = "text")
              => /\ req'[p].analysis # <<>>
                 /\ req'[p].analysis[1].sentiment \in Sentiments
                 /\ req'[p].analysis[1].urgency \in UrgencyVocabulary(impl)]_vars

\* the theme vocabulary of the prompt of src/index.ts
ThemeVocabulary ==
    {"bug", "feature-request", "performance", "ux", "documentation", "pricing", "security",
     "integration", "mobile", "accessibility", "api", "support"}

\* C26: the themes of every analyzed row are the default or a comma-joined
\* list of tags of the theme vocabulary.
C26_ThemesInVocabulary ==
    \A i \in DOMAIN rows :
        rows[i].sentiment # NULL =>
            \/ rows[i].themes = Defaults(impl).themes
            \/ /\ rows[i].themes # NULL
               /\ Range(TagsOf(rows[i])) \subseteq {Chars(tag) : tag \in ThemeVocabulary}

\* the tasks that start their classifier call in this step
Starting(p) ==
    {i \in DOMAIN req'[p].items :
        /\ req'[p].items[i].st = "ai"
        /\ (Arrived(p) \/ req[p].items[i].st = "wait")}

\* ceil(n / batchSize)
GroupCount(n) == (n + batchSize - 1) \div batchSize

\* the k-th group of a selection of n rows: batchSize rows, the last group
\* the rest
NthGroup(k, n) == {i \in 1..n : (k - 1) * batchSize < i /\ i <= k * batchSize}

\* the tasks start group by group, each group when all tasks of the groups
\* before it have ended with their classification and their UPDATE
GroupsInOrder ==
    [][\A p \in Procs :
          Starting(p) # {} =>
              \E k \in 1..GroupCount(Len(req'[p].sel)) :
                  /\ Starting(p) = NthGroup(k, Len(req'[p].sel))
                  /\ \A i \in DOMAIN req'[p].items :
                        /\ i <= (k - 1) * batchSize => req'[p].items[i].st \in {"ok", "fail"}
                        /\ i > k * batchSize => req'[p].items[i].st = "wait"]_vars

\* C23: analyzeAll processes the n rows it selected in ceil(n / 5) consecutive
\* groups, each of 5 rows but the last; no task of a group starts before all
\* tasks of the group before it have finished classification and persistence,
\* and when the run ends every group has been processed.
C23_GroupsOfFiveInOrder ==
    [][\A p \in Procs :
          /\ Starting(p) # {} =>
                \E k \in 1..GroupCount(Len(req'[p].sel)) :
                    /\ Starting(p) = NthGroup(k, Len(req'[p].sel))
                    /\ \A i \in DOMAIN req'[p].items :
                          /\ i <= (k - 1) * batchSize => req'[p].items[i].st \in {"ok", "fail"}
                          /\ i > k * batchSize => req'[p].items[i].st = "wait"
          /\ (Returned(p) /\ req'[p].op = "all") =>
                \A k \in 1..GroupCount(Len(req'[p].sel)) :
                    \A i \in NthGroup(k, Len(req'[p].sel)) :
                        req'[p].items[i].st \in {"ok", "fail"}]_vars

\* C24: one analyzeAll call classifies and updates at most 50 rows, all of
\* them rows whose sentiment was null when the selection was read; a row that
\* was analyzed then is neither classified nor updated by the call.
C24_AtMostFiftyUnanalyzed ==
    [][\A p \in Procs :
          /\ (Arrived(p) /\ req'[p].op = "all") =>
                /\ Len(req'[p].sel) <= 50
                /\ \A k \in DOMAIN req'[p].sel :
                      \E i \in DOMAIN rows : rows[i] = req'[p].sel[k] /\ rows[i].sentiment = NULL
          /\ req'[p].op = "all" =>
                /\ Starting(p) \subseteq DOMAIN req'[p].sel
                /\ \A i \in DOMAIN rows :
                      rows'[i] # rows[i] =>
                          \E k \in DOMAIN req[p].sel :
                              /\ req[p].sel[k].id = rows[i].id
                              /\ req[p].items[k].st = "db"]_vars

\* a run has ended that selected 50 rows of more and labelled them all, an
\* analyzed row and a row beyond the limit left as they were
C24_Witness ==
    /\ Answered(1, "all") /\ Status(1) = 200
    /\ Len(req[1].sel) = 50
    /\ \A k \in DOMAIN req[1].items : req[1].items[k].st = "ok"
    /\ rows[Len(rows)].sentiment = NULL
    /\ rows[1].sentiment # NULL /\ \A k \in DOMAIN req[1].sel : req[1].sel[k].id # 1
    /\ Cardinality({i \in DOMAIN rows : rows[i].sentiment # NULL}) = 51

\* the triples the extractor can return for a text
Classifications(im, text) ==
    {Labels(analyzeWithAI(im, out)) :
        out \in {o \in AIOutcomes(im, text) : ~analyzeWithAI(im, o).threw}}

\* C25: in whatever order the tasks of a group end, the labels written to a
\* row are the result of classifying the text of that row, never the result
\* computed for another row of the group.
C25_LabelsOfOwnText ==
    \A i \in DOMAIN rows :
        rows[i].sentiment # NULL =>
            [sentiment |-> rows[i].sentiment, themes |-> rows[i].themes,
             urgency |-> rows[i].urgency] \in Classifications(impl, rows[i].text)

\* the second task of a group has written its labels while the first is
\* still waiting for the classifier, and the two texts classify differently
C25_Witness ==
    /\ req[1].op = "all" /\ Len(req[1].items) >= 2
    /\ req[1].items[1].st = "ai" /\ req[1].items[2].st = "ok"
    /\ rows[2].sentiment = "positive" /\ rows[1].sentiment = NULL
    /\ Classifications(impl, rows[1].text) \cap Classifications(impl, rows[2].text)
           \subseteq {Defaults(impl)}

\* the rows of the version's highest urgency and negative sentiment
UrgentNegative(rs, im) ==
    {i \in DOMAIN rs : rs[i].urgency = UrgentWord(im) /\ rs[i].sentiment = "negative"}

\* the list of priority issues of an answer of getInsights: topPriorityIssues
\* of src/index.ts (none when no row is analyzed), the rows of the first query
\* of src/src/index.ts
PriorityIssues(im, body) ==
    IF im = "worker" THEN body.action_items
    ELSE IF "topPriorityIssues" \in DOMAIN body THEN body.topPriorityIssues
    ELSE <<>>

\* the entries of list are n rows of the set ids of the table, the most
\* recent ones, the later before the earlier
MostRecentOf(list, rs, ids, n) ==
    /\ Len(list) = Min(n, Cardinality(ids))
    /\ \A k \in DOMAIN list : \E i \in ids : rs[i].created_at = list[k].created_at
    /\ \A k \in DOMAIN list : \A l \in DOMAIN list : k < l => list[k].created_at >= list[l].created_at
    /\ \A i \in ids :
          \/ \E k \in DOMAIN list : list[k].created_at = rs[i].created_at
          \/ \A k \in DOMAIN list : list[k].created_at >= rs[i].created_at

\* C27: the priority issues of getInsights are at most 5 entries, each of the
\* highest urgency and of negative sentiment: the most recent such analyzed
\* rows, the later before the earlier, and no row that fails a condition.
C27_TopPriorityFiveUrgentNegative ==
    [][\A p \in Procs :
          (/\ Returned(p) /\ req'[p].op = "insights" /\ req'[p].resp[1].xcache # "HIT")
              => LET top == PriorityIssues(impl, req'[p].resp[1].body)
                 IN /\ Len(top) <= 5
                    /\ MostRecentOf(top, rows', UrgentNegative(rows', impl), 5)]_vars

\* getInsights has answered with 5 priority issues on a table that holds more
\* such rows and later rows that fail one of the conditions
C27_Witness ==
    /\ Answered(1, "insights")
    /\ Len(PriorityIssues(impl, req[1].resp[1].body)) = 5
    /\ Cardinality(UrgentNegative(rows, impl)) > 5
    /\ rows[Len(rows)].urgency = "low"
    /\ rows[Len(rows) - 1].sentiment = "positive"

\* C20: on a cache miss, recent_urgent of the getStats payload holds at most 5
\* rows, each of the highest urgency (high, or urgent on the other scale):
\* the most recent such rows, the later before the earlier.
C20_RecentUrgentFiveHigh ==
    [][\A p \in Procs :
          (/\ Returned(p) /\ req'[p].op = "stats" /\ req'[p].resp[1].xcache = "MISS")
              => LET recent == req'[p].resp[1].body.recent_urgent
                 IN /\ Len(recent) <= 5
                    /\ \A i \in DOMAIN recent : recent[i].urgency = UrgentWord(impl)
                    /\ MostRecentOf(recent, rows',
                                    {i \in DOMAIN rows' : rows'[i].urgency = UrgentWord(impl)}, 5)]_vars

\* C28: no step removes a row or changes the id, source, text or created_at
\* of a row; a row changes only in its three labels, and only through an
\* analyzeOne call for its id or an analyzeAll call that selected it.
C28_OnlyLabelsOfTargetRowsChange ==
    [][/\ Len(rows') >= Len(rows)
       /\ \A i \in DOMAIN rows :
             /\ rows'[i].id = rows[i].id
             /\ rows'[i].source = rows[i].source
             /\ rows'[i].text = rows[i].text
             /\ rows'[i].created_at = rows[i].created_at
             /\ rows'[i] # rows[i] =>
                   \E p \in Procs :
                       \/ req[p].op = "one" /\ req[p].id = rows[i].id
                       \/ /\ req[p].op = "all"
                          /\ \E k \in DOMAIN req[p].sel : req[p].sel[k].id = rows[i].id]_vars

\* analyzeOne has labelled row 1 of a table of two rows and has left row 2, a
\* row added by submitFeedback, without labels
C28_Witness ==
    /\ Answered(1, "one") /\ Status(1) = 200 /\ req[1].id = 1
    /\ Len(rows) = 2
    /\ rows[1].sentiment # NULL
    /\ rows[2].sentiment = NULL /\ rows[2].themes = NULL /\ rows[2].urgency = NULL

\* the prefix of min(100, length) characters of the text, then '...'
PrefixAndEllipsis(text) ==
    LET cs == Chars(text)
    IN SubSeq(cs, 1, Min(100, Len(cs))) \o <<".", ".", ".">>

\* the k-th latest of the rows ids of the table (the rows of the tables of
\* SpecInsights are created at different instants)
Latest(rs, ids, k) ==
    CHOOSE i \in ids : Cardinality({j \in ids : rs[j].created_at > rs[i].created_at}) = k - 1

\* the previews of a list of getInsights are those of the latest rows of ids
PreviewsOf(list, rs, ids) ==
    \A k \in DOMAIN list :
        /\ list[k].text = PrefixAndEllipsis(rs[Latest(rs, ids, k)].text)
        /\ Len(list[k].text) <= 100 + 3

\* C29: every text preview of topPriorityIssues, topFeatureRequests and
\* quickWins is the first min(100, length) characters of the entry's text
\* followed by '...', whatever the length of the text.
C29_PreviewIsPrefixAndEllipsis ==
    [][\A p \in Procs :
          (/\ Returned(p) /\ req'[p].op = "insights" /\ req'[p].resp[1].xcache # "HIT"
           /\ "quickWins" \in DOMAIN req'[p].resp[1].body)
              => LET body == req'[p].resp[1].body
                 IN /\ PreviewsOf(body.topPriorityIssues, rows',
                          {i \in DOMAIN rows' : /\ rows'[i].urgency = "high"
                                                /\ rows'[i].sentiment = "negative"})
                    /\ PreviewsOf(body.topFeatureRequests, rows',
                          {i \in DOMAIN rows' : Tagged(rows'[i], "feature-request")})
                    /\ PreviewsOf(body.quickWins, rows',
                          {i \in DOMAIN rows' : rows'[i].sentiment = "positive"})]_vars

\* getInsights has answered with the preview of a text longer than 100
\* characters, of a text of 100 characters and of a shorter text
C29_Witness ==
    /\ Answered(1, "insights")
    /\ "quickWins" \in DOMAIN req[1].resp[1].body
    /\ LET body == req[1].resp[1].body
       IN /\ \E k \in DOMAIN body.topPriorityIssues :
                /\ Len(body.topPriorityIssues[k].text) = 103
                /\ \E i \in DOMAIN rows : /\ rows[i].created_at = body.topPriorityIssues[k].created_at
                                          /\ Len(Chars(rows[i].text)) > 100
          /\ \E k \in DOMAIN body.topPriorityIssues : Len(body.topPriorityIssues[k].text) = 5 + 3
          /\ \E k \in DOMAIN body.topFeatureRequests : Len(body.topFeatureRequests[k].text) = 103
          /\ \E k \in DOMAIN body.quickWins : Len(body.quickWins[k].text) < 100

AllLabelled == \A i \in DOMAIN rows : rows[i].sentiment # NULL

\* C30: if analyzeAll is called again and again, every row without a
\* sentiment gets one at some time and keeps it, also when the classification
\* of some rows fails at every attempt.
C30_EveryRowEventuallyLabelled == <>[]AllLabelled

\* the same for src/index.ts alone
RootEveryRowEventuallyLabelled == (impl = "root") => <>[]AllLabelled

====
